---- MODULE Spec2Model ----
(***************************************************************************)
(* Dispatch-and-sandbox core of app/main.py: the /run endpoint asks the    *)
(* language model for one function call, binds its arguments to a handler  *)
(* of TASK_MAP and runs it; handlers guard their path arguments with       *)
(* safe_resolve / is_safe_path; /read returns a file under /data.          *)
(*                                                                         *)
(* A Python string is modelled by what the path functions see of it:       *)
(* whether it starts with "/" (abs) and its "/"-separated segments (segs). *)
(* JSON null is the value Null.  A filesystem location is the sequence of  *)
(* segments of a fully resolved absolute path (<< >> is "/").              *)
(***************************************************************************)
EXTENDS Integers, Sequences, FiniteSets, TLC

VARIABLES
    cwd,          \* working directory of the server process (a location)
    links,        \* symbolic links of the filesystem: location -> location
    files,        \* locations that are regular files
    pc,           \* "idle" (no request in progress) or "done" (a request was answered)
    req,          \* the request answered last: "none", "run" or "read"
    decision,     \* /run: what the model service answered (or how it failed)
    oracle,       \* /run: the external fault the handler met
    response,     \* /run: the HTTP answer
    llmCalls,     \* /run: round trips call_llm_function_call made
    dispatched,   \* /run: times execute_llm_function_call called func(**args)
    entered,      \* /run: handlers whose body started, in order
    raised,       \* /run: exception class that left the dispatched handler's body, or ""
    effects,      \* filesystem/process/network effects of the request
    checked,      \* is_safe_path evaluations of the request: [v, ok]
    filesBefore,  \* files when the request arrived
    readPath,     \* /read: the path asked for
    readStatus,   \* /read: the HTTP status answered
    registry,     \* the module global TASK_MAP: handler names in insertion order
    schemas,      \* the list get_all_function_schemas returned at the latest /run call
    prevSchemas   \* the list it returned at the last answered /run call before (<< >> if none)

vars == <<cwd, links, files, pc, req, decision, oracle, response, llmCalls,
          dispatched, entered, raised, effects, checked, filesBefore,
          readPath, readStatus, registry, schemas, prevSchemas>>

\* Largest number of ways one model decision departs from a well-formed call
\* (a changed argument value, a missing key, an extra key).
MaxDeviations == 1

----------------------------------------------------------------------------
(* Values and paths *)

Null == [null |-> TRUE, abs |-> FALSE, segs |-> << >>]
Str(a, s) == [null |-> FALSE, abs |-> a, segs |-> s]
Word(w) == Str(FALSE, <<w>>)

\* DATA_DIR = Path("/data")
DATA_DIR == Str(TRUE, <<"data">>)

\* Directories of the filesystem (static); /data exists after DATA_DIR.mkdir.
Dirs == { << >>, <<"data">>, <<"etc">>, <<"app">>, <<"app", "data">> }

\* The server may be started from any directory; main.py never changes it.
WorkDirs == { << >>, <<"app">>, <<"data">> }

\* Filesystems with and without a symbolic link /data/lnk -> /etc.
LinkMaps == { [l \in {} |-> << >>], [l \in {<<"data", "lnk">>} |-> <<"etc">>] }

InitFiles == { <<"data", "x">>, <<"etc", "passwd">> }

Parent(loc) == IF loc = << >> THEN << >> ELSE SubSeq(loc, 1, Len(loc) - 1)

\* os.path.realpath / the kernel's path walk: ".." steps to the physical parent,
\* "." is skipped, a component that is a symbolic link is replaced by its target.
RECURSIVE Walk(_, _)
Walk(cur, segs) ==
    IF segs = << >> THEN cur
    ELSE LET s == Head(segs)
             nxt == Append(cur, s)
         IN  IF s = ".." THEN Walk(Parent(cur), Tail(segs))
             ELSE IF s = "." THEN Walk(cur, Tail(segs))
             ELSE Walk(IF nxt \in DOMAIN links THEN links[nxt] ELSE nxt, Tail(segs))

\* PurePath.is_relative_to
is_relative_to(loc, root) ==
    /\ Len(root) <= Len(loc)
    /\ SubSeq(loc, 1, Len(root)) = root

\* os.path.join("/", path): an absolute path replaces "/", a relative one is put under it.
os_path_join_root(v) == Str(TRUE, v.segs)

\* Path(...).resolve() of an absolute path.
resolve(v) == Walk(<< >>, v.segs)

\* Where the operating system finds Path(user_path) when a handler opens it:
\* relative paths start at the process's working directory.
OpenLoc(v) == Walk(IF v.abs THEN << >> ELSE cwd, v.segs)

\* The sandbox root, fully resolved.
Root == resolve(DATA_DIR)

InSandbox(loc) == is_relative_to(loc, Root)

is_safe_path(v) ==
    IF v.null THEN FALSE      \* os.path.join raises TypeError, caught: return False
    ELSE is_relative_to(resolve(os_path_join_root(v)), resolve(DATA_DIR))

\* safe_resolve: "" when Path(user_path) is returned, else the exception raised.
safe_resolve(v) == IF ~is_safe_path(v) THEN "HTTP403" ELSE ""

----------------------------------------------------------------------------
(* The registry and the handlers *)

NoDecision == [kind |-> "", name |-> "", args |-> << >>]
NoOracle == [at |-> 0, exc |-> ""]
NoResponse == [status |-> 0, detail |-> "", op |-> "", cause |-> "", arg |-> {}]

\* TASK_MAP, in insertion order.
TASK_MAP ==
    << "install_and_run_script_if_needed", "format_file_inplace",
       "count_specific_weekday", "sort_contacts_by_fields", "retrieve_log_lines",
       "index_files_by_extension", "extract_info_with_llm",
       "extract_text_from_image", "find_most_similar_pair", "query_db_and_write",
       "fetch_data_from_api", "clone_repo_and_commit", "run_sql_on_db",
       "scrape_website", "compress_or_resize_image", "transcribe_audio",
       "convert_md_to_html", "filter_csv_and_write_json" >>

Registered == { TASK_MAP[i] : i \in 1..Len(TASK_MAP) }

\* The parameters of each handler's signature, in order.
Params(op) ==
    CASE op = "install_and_run_script_if_needed" -> <<"package", "script_url", "script_arg">>
      [] op = "format_file_inplace" -> <<"file_path", "prettier_version">>
      [] op = "count_specific_weekday" -> <<"input_file", "output_file", "weekday">>
      [] op = "sort_contacts_by_fields" -> <<"input_file", "output_file", "sort_fields">>
      [] op = "retrieve_log_lines" -> <<"input_dir", "output_file", "lines_per_file", "max_logs">>
      [] op = "index_files_by_extension" -> <<"input_dir", "output_file", "extension", "marker">>
      [] op = "extract_info_with_llm" -> <<"input_file", "output_file", "prompt_text">>
      [] op = "extract_text_from_image" -> <<"image_path", "output_file", "prompt_text">>
      [] op = "find_most_similar_pair" -> <<"input_file", "output_file">>
      [] op = "query_db_and_write" -> <<"db_file", "output_file", "sql_query">>
      [] op = "fetch_data_from_api" -> <<"url", "output_file", "method", "payload">>
      [] op = "clone_repo_and_commit" -> <<"repo_url", "output_dir", "commit_msg">>
      [] op = "run_sql_on_db" -> <<"db_file", "output_file", "sql_query", "db_type">>
      [] op = "scrape_website" -> <<"url", "output_file">>
      [] op = "compress_or_resize_image" -> <<"input_file", "output_file", "width", "height", "quality">>
      [] op = "transcribe_audio" -> <<"input_file", "output_file">>
      [] op = "convert_md_to_html" -> <<"input_file", "output_file">>
      [] op = "filter_csv_and_write_json" -> <<"input_file", "output_file", "column", "value">>

ParamSet(op) == { Params(op)[i] : i \in 1..Len(Params(op)) }

\* The parameters a signature gives a default value, with that value.
Defaults(op) ==
    CASE op = "fetch_data_from_api" -> ("method" :> Word("GET")) @@ ("payload" :> Null)
      [] op = "run_sql_on_db" -> ("db_type" :> Word("sqlite"))
      [] op = "compress_or_resize_image" -> ("quality" :> Word("75"))
      [] OTHER -> [p \in {} |-> Null]

\* function_to_schema: "required": list(props.keys()), one property per parameter.
SchemaRequired(op) == ParamSet(op)

\* The first line of the handler's docstring (parsed.short_description),
\* abbreviated to its task label.
ShortDescription(op) ==
    CASE op = "install_and_run_script_if_needed" -> "A1"
      [] op = "format_file_inplace" -> "A2"
      [] op = "count_specific_weekday" -> "A3"
      [] op = "sort_contacts_by_fields" -> "A4"
      [] op = "retrieve_log_lines" -> "A5"
      [] op = "index_files_by_extension" -> "A6"
      [] op = "extract_info_with_llm" -> "A7"
      [] op = "extract_text_from_image" -> "A8"
      [] op = "find_most_similar_pair" -> "A9"
      [] op = "query_db_and_write" -> "A10"
      [] op = "fetch_data_from_api" -> "B3"
      [] op = "clone_repo_and_commit" -> "B4"
      [] op = "run_sql_on_db" -> "B5"
      [] op = "scrape_website" -> "B6"
      [] op = "compress_or_resize_image" -> "B7"
      [] op = "transcribe_audio" -> "B8"
      [] op = "convert_md_to_html" -> "B9"
      [] op = "filter_csv_and_write_json" -> "B10"

\* function_to_schema: every parameter of the signature becomes a string
\* property, in signature order, and all of them are required.
function_to_schema(op) ==
    [ name |-> op,
      description |-> ShortDescription(op),
      parameters |->
        [ type |-> "object",
          properties |-> [ i \in 1..Len(Params(op)) |->
                             [name |-> Params(op)[i], type |-> "string"] ],
          required |-> Params(op) ] ]

get_all_function_schemas_prepend(reg) ==
    [ i \in 1..Len(reg) |-> function_to_schema(reg[Len(reg) + 1 - i]) ]

\* get_all_function_schemas: one schema per entry of TASK_MAP.items(), appended
\* in iteration order.
get_all_function_schemas(reg) ==
    [ i \in 1..Len(reg) |-> function_to_schema(reg[i]) ]

\* A handler body as the sequence of its steps that can fail or have an effect.
\*   int      int(arg)                       resolve  safe_resolve(arg)
\*   isdir    raise 404 unless arg is a dir  read     read the file at arg
\*   list     read the directory at arg      write    create/overwrite the file at arg
\*   pass     spawn a process on arg         proc     spawn a process, no path given
\*   net      an HTTP request                embed    get_embeddings, skipped for < 2 lines
\*   llm      call_simple_llm                json     json.loads of the input file
\*   sort     data.sort(key=sort_func)       enter    a handler body starts
\* p is the parameter the step uses; "@cwd" is local_name, a relative file name.
St(k, p) == [k |-> k, p |-> p]

extract_info_with_llm_steps(inp, out) ==
    << St("resolve", inp), St("resolve", out), St("read", inp), St("llm", ""),
       St("write", out) >>

StepsOf(op) ==
    CASE op = "install_and_run_script_if_needed" ->
            << St("proc", ""), St("write", "@cwd"), St("pass", "@cwd") >>
      [] op = "format_file_inplace" ->
            << St("resolve", "file_path"), St("pass", "file_path") >>
      [] op = "count_specific_weekday" ->
            << St("int", "weekday"), St("resolve", "input_file"),
               St("resolve", "output_file"), St("read", "input_file"),
               St("write", "output_file") >>
      [] op = "sort_contacts_by_fields" ->
            << St("resolve", "input_file"), St("resolve", "output_file"),
               St("read", "input_file"), St("json", ""), St("sort", ""),
               St("write", "output_file") >>
      [] op = "retrieve_log_lines" ->
            << St("int", "lines_per_file"), St("int", "max_logs"),
               St("resolve", "input_dir"), St("resolve", "output_file"),
               St("isdir", "input_dir"), St("list", "input_dir"),
               St("write", "output_file") >>
      [] op = "index_files_by_extension" ->
            << St("resolve", "input_dir"), St("resolve", "output_file"),
               St("isdir", "input_dir"), St("list", "input_dir"),
               St("write", "output_file") >>
      [] op = "extract_info_with_llm" ->
            extract_info_with_llm_steps("input_file", "output_file")
      [] op = "extract_text_from_image" ->
            << St("resolve", "image_path"), St("resolve", "output_file"),
               St("pass", "image_path"), St("write", "output_file"),
               St("enter", "extract_info_with_llm") >>
            \o extract_info_with_llm_steps("output_file", "output_file")
      [] op = "find_most_similar_pair" ->
            << St("resolve", "input_file"), St("resolve", "output_file"),
               St("read", "input_file"), St("embed", ""), St("write", "output_file") >>
      [] op = "query_db_and_write" ->
            << St("resolve", "db_file"), St("resolve", "output_file"),
               St("write", "db_file"), St("write", "output_file") >>
      [] op = "fetch_data_from_api" ->
            << St("resolve", "output_file"), St("net", ""), St("write", "output_file") >>
      [] op = "clone_repo_and_commit" ->
            << St("resolve", "output_dir"), St("pass", "output_dir"),
               St("pass", "output_dir"), St("pass", "output_dir") >>
      [] op = "run_sql_on_db" ->
            << St("resolve", "db_file"), St("resolve", "output_file"),
               St("write", "db_file"), St("write", "output_file") >>
      [] op = "scrape_website" ->
            << St("resolve", "output_file"), St("net", ""), St("write", "output_file") >>
      [] op = "compress_or_resize_image" ->
            << St("int", "width"), St("int", "height"), St("int", "quality"),
               St("resolve", "input_file"), St("resolve", "output_file"),
               St("read", "input_file"), St("write", "output_file") >>
      [] op = "transcribe_audio" ->
            << St("resolve", "input_file"), St("resolve", "output_file"),
               St("write", "output_file") >>
      [] op = "convert_md_to_html" ->
            << St("resolve", "input_file"), St("resolve", "output_file"),
               St("read", "input_file"), St("write", "output_file") >>
      [] op = "filter_csv_and_write_json" ->
            << St("resolve", "input_file"), St("resolve", "output_file"),
               St("read", "input_file"), St("write", "output_file") >>

\* func(**args) once the arguments are bound: the body starts, then runs its steps.
Body(op) == << St("enter", op) >> \o StepsOf(op)

\* Parameters by the use the body makes of them.
StepParams(op, k) == { StepsOf(op)[i].p : i \in { j \in 1..Len(StepsOf(op)) : StepsOf(op)[j].k = k } }
PathParams(op) == StepParams(op, "resolve")
IntParams(op) == StepParams(op, "int")
DirParams(op) == StepParams(op, "isdir")

\* The exception classes an external fault can raise at a step.
Raises(k) ==
    CASE k = "proc" -> {"Exception"}            \* CalledProcessError
      [] k = "read" -> {"Exception"}            \* OSError, UnicodeDecodeError
      [] k = "list" -> {"Exception"}
      [] k = "write" -> {"Exception"}
      [] k = "pass" -> {"Exception"}            \* CalledProcessError
      [] k = "net" -> {"Exception"}             \* requests.RequestException
      [] k = "embed" -> {"Exception", "skip"}
      [] k = "llm" -> {"HTTP503", "TypeError", "Exception"}
      [] k = "json" -> {"HTTP500"}
      [] k = "sort" -> {"TypeError", "Exception"}
      [] OTHER -> {}

Faults(steps) ==
    {NoOracle} \cup
    UNION { { [at |-> i, exc |-> e] : e \in Raises(steps[i].k) } : i \in 1..Len(steps) }

\* int(v): only decimal strings parse.
IntStrings == {"6", "75"}
int(v) ==
    IF v.null THEN "TypeError"
    ELSE IF ~v.abs /\ Len(v.segs) = 1 /\ v.segs[1] \in IntStrings THEN ""
    ELSE "ValueError"

\* local_name = script_url.split("/")[-1]
local_name == Word("script.py")

ArgOf(bound, p) == IF p = "@cwd" THEN local_name ELSE bound[p]

NoRun == [exc |-> "", eff |-> {}, entered |-> << >>, writes |-> {}, chk |-> {}]

Fail(st, e) == [st EXCEPT !.exc = e]
Effect(st, k, loc) == [st EXCEPT !.eff = @ \cup {[k |-> k, loc |-> loc]}]

\* One step of a body; st.exc becomes the exception the step raises, if any.
DoStep(s, bound, i, orc, st) ==
    LET v == ArgOf(bound, s.p)
        loc == OpenLoc(v)
        hit == orc.at = i /\ orc.exc \in Raises(s.k)
    IN  CASE s.k = "enter" -> [st EXCEPT !.entered = Append(@, s.p)]
          [] s.k = "int" -> Fail(st, int(v))
          [] s.k = "resolve" ->
                Fail([st EXCEPT !.chk = @ \cup {[v |-> v, ok |-> is_safe_path(v)]}],
                     safe_resolve(v))
          [] s.k = "isdir" -> IF loc \in Dirs THEN st ELSE Fail(st, "HTTP404")
          [] s.k = "read" ->
                IF loc \notin files \cup st.writes THEN Fail(st, "Exception")
                ELSE IF hit THEN Fail(st, orc.exc)
                ELSE Effect(st, "read", loc)
          [] s.k = "list" ->
                IF hit THEN Fail(st, orc.exc) ELSE Effect(st, "read", loc)
          [] s.k = "write" ->
                IF loc \in Dirs \/ Parent(loc) \notin Dirs THEN Fail(st, "Exception")
                ELSE IF hit THEN Fail(st, orc.exc)
                ELSE [Effect(st, "write", loc) EXCEPT !.writes = @ \cup {loc}]
          [] s.k = "pass" ->
                IF hit THEN Fail(Effect(st, "pass", loc), orc.exc)
                ELSE Effect(st, "pass", loc)
          [] s.k = "proc" ->
                IF hit THEN Fail(Effect(st, "proc", << >>), orc.exc)
                ELSE Effect(st, "proc", << >>)
          [] s.k = "net" ->
                IF hit THEN Fail(st, orc.exc) ELSE Effect(st, "net", << >>)
          [] s.k = "embed" ->
                IF hit /\ orc.exc = "skip" THEN st
                ELSE IF hit THEN Fail(st, orc.exc)
                ELSE Effect(st, "net", << >>)
          [] s.k = "llm" ->
                IF hit /\ orc.exc = "HTTP503" THEN Fail(st, orc.exc)
                ELSE IF hit THEN Fail(Effect(st, "net", << >>), orc.exc)
                ELSE Effect(st, "net", << >>)
          [] s.k = "json" -> IF hit THEN Fail(st, orc.exc) ELSE st
          [] s.k = "sort" -> IF hit THEN Fail(st, orc.exc) ELSE st

RECURSIVE RunSteps(_, _, _, _, _)
RunSteps(steps, bound, i, orc, st) ==
    IF i > Len(steps) THEN st
    ELSE LET r == DoStep(steps[i], bound, i, orc, st)
         IN  IF r.exc # "" THEN r ELSE RunSteps(steps, bound, i + 1, orc, r)

----------------------------------------------------------------------------
(* The model service's answers *)

\* What a well-formed call passes for a parameter.
GoodArg(op, p) ==
    IF p \in DirParams(op) THEN Str(TRUE, <<"data">>)
    ELSE IF p \in PathParams(op) THEN Str(TRUE, <<"data", "x">>)
    ELSE IF p \in IntParams(op) THEN Word("6")
    ELSE Word("s")

OddPaths ==
    { Str(TRUE, <<"etc", "out">>),                  \* /etc/out
      Str(FALSE, <<"data", "x">>),                  \* data/x
      Str(TRUE, <<"data", "..", "etc", "out">>),    \* /data/../etc/out
      Str(TRUE, <<"data", "lnk", "out">>),          \* /data/lnk/out, lnk -> /etc
      Str(TRUE, <<"data", "..", "data", "x">>),     \* /data/../data/x
      Null }
OddInts == { Word("abc"), Null }
ExtraKey == "verbose"

\* The ways a decision for op can depart from a well-formed call.
Deviations(op) ==
    { [p |-> p, how |-> "value", v |-> v] : p \in PathParams(op), v \in OddPaths }
    \cup { [p |-> p, how |-> "value", v |-> v] : p \in IntParams(op), v \in OddInts }
    \cup { [p |-> p, how |-> "missing", v |-> Null] : p \in ParamSet(op) }
    \cup { [p |-> ExtraKey, how |-> "extra", v |-> Word("s")] }

RECURSIVE DevSets(_, _)
DevSets(op, k) ==
    IF k = 0 THEN { {} }
    ELSE LET less == DevSets(op, k - 1)
         IN  less \cup { s \cup {d} : s \in less, d \in Deviations(op) }

OnePerKey(D) == \A d, e \in D : d.p = e.p => d = e

ArgsOf(op, D) ==
    LET keys == (ParamSet(op) \ { d.p : d \in { e \in D : e.how = "missing" } })
                \cup { d.p : d \in { e \in D : e.how = "extra" } }
    IN  [ p \in keys |->
            IF \E d \in D : d.p = p /\ d.how # "missing"
            THEN (CHOOSE d \in D : d.p = p).v
            ELSE GoodArg(op, p) ]

UnknownNames == { "delete_file", "" }

CallsOf(op) ==
    { [kind |-> "call", name |-> op, args |-> ArgsOf(op, D)] :
        D \in { E \in DevSets(op, MaxDeviations) : OnePerKey(E) } }

\* Every way the round trip of call_llm_function_call can end.
LlmOutcomes ==
    { [kind |-> k, name |-> "", args |-> << >>] :
        k \in {"Timeout", "ConnectionError", "HTTPError", "nochoices", "nofncall"} }
    \cup { [kind |-> k, name |-> n, args |-> << >>] :
             k \in {"badjson", "notmapping"}, n \in {"transcribe_audio"} \cup UnknownNames }
    \cup { [kind |-> "call", name |-> n, args |-> ("path" :> Str(TRUE, <<"data", "x">>))] :
             n \in UnknownNames }
    \cup UNION { CallsOf(op) : op \in Registered }

UpstreamFailures == {"Timeout", "ConnectionError", "HTTPError"}

----------------------------------------------------------------------------
(* POST /run *)

TASK_MAP_get_default(name) == IF name \in Registered THEN name ELSE "transcribe_audio"

\* TASK_MAP.get(fn_name): the handler's name, or "" for None.
TASK_MAP_get(name) ==
    IF name \in { registry[i] : i \in 1..Len(registry) } THEN name ELSE ""

Bind_drop_extra(op, args) ==
    LET missing == ParamSet(op) \ (DOMAIN args \cup DOMAIN Defaults(op))
    IN  IF missing # {} THEN [exc |-> "TypeError", arg |-> missing, bound |-> << >>]
        ELSE [exc |-> "", arg |-> {},
              bound |-> [ p \in ParamSet(op) |->
                            IF p \in DOMAIN args THEN args[p] ELSE Defaults(op)[p] ]]

\* Python's binding of func(**args): an unexpected keyword is reported first,
\* then the parameters without a default that got no value.
Bind(op, args) ==
    LET extra == DOMAIN args \ ParamSet(op)
        missing == ParamSet(op) \ (DOMAIN args \cup DOMAIN Defaults(op))
    IN  IF extra # {} THEN [exc |-> "TypeError", arg |-> extra, bound |-> << >>]
        ELSE IF missing # {} THEN [exc |-> "TypeError", arg |-> missing, bound |-> << >>]
        ELSE [exc |-> "", arg |-> {},
              bound |-> [ p \in ParamSet(op) |->
                            IF p \in DOMAIN args THEN args[p] ELSE Defaults(op)[p] ]]

\* The handler body on bound arguments.
Invoke(op, bound, orc) == RunSteps(Body(op), bound, 1, orc, NoRun)

Dispatch_retry(op, d, orc) ==
    LET b == IF d.kind = "notmapping"
             THEN [exc |-> "TypeError", arg |-> {}, bound |-> << >>]
             ELSE Bind(op, d.args)
        first == IF b.exc = "" THEN Invoke(op, b.bound, orc) ELSE NoRun
        again == Invoke(op, b.bound, NoOracle)
    IN  IF b.exc = "" /\ first.exc = "Exception"
        THEN [bind |-> b,
              run |-> [again EXCEPT !.entered = first.entered \o @,
                                    !.eff = first.eff \cup @,
                                    !.chk = first.chk \cup @,
                                    !.writes = first.writes \cup @],
              n |-> 2]
        ELSE [bind |-> b, run |-> first, n |-> 1]

\* func(**args), lines 598-600: [bind, run, n] with n the number of calls made.
Dispatch(op, d, orc) ==
    LET b == IF d.kind = "notmapping"
             THEN [exc |-> "TypeError", arg |-> {}, bound |-> << >>]
             ELSE Bind(op, d.args)
    IN  [bind |-> b,
         run |-> IF b.exc = "" THEN Invoke(op, b.bound, orc) ELSE NoRun,
         n |-> 1]

Outcome(exc, status, detail, op, cause, arg, run, n, bodyExc) ==
    [exc |-> exc, status |-> status, detail |-> detail, op |-> op, cause |-> cause,
     arg |-> arg, run |-> run, n |-> n, raised |-> bodyExc]

\* execute_llm_function_call: the exception it raises ("" for a normal return),
\* with what the handler did.
execute_llm_function_call(d, orc) ==
    IF d.kind = "nochoices"
    THEN Outcome("ValueError", 0, "No choices in LLM response.", "", "", {}, NoRun, 0, "")
    ELSE IF d.kind = "nofncall"
    THEN Outcome("ValueError", 0, "LLM did not pick a function.", "", "", {}, NoRun, 0, "")
    ELSE IF d.kind = "badjson"
    THEN Outcome("ValueError", 0, "Invalid JSON in function arguments", "", "", {}, NoRun, 0, "")
    ELSE IF TASK_MAP_get(d.name) = ""
    THEN Outcome("ValueError", 0, "No function named", d.name, "", {}, NoRun, 0, "")
    ELSE LET r == Dispatch(TASK_MAP_get(d.name), d, orc)
             e == IF r.bind.exc # "" THEN r.bind.exc ELSE r.run.exc
         IN  IF e = "" THEN Outcome("", 0, "", "", "", {}, r.run, r.n, "")
             ELSE IF e = "TypeError"
             THEN Outcome("ValueError", 0, "Argument mismatch", "", e, r.bind.arg,
                          r.run, r.n, r.run.exc)
             ELSE Outcome("HTTPException", 500, "Error in", d.name, e, {},
                          r.run, r.n, r.run.exc)

\* run_task's answer for the exception execute_llm_function_call raised.
run_task_response(x) ==
    IF x.exc = ""
    THEN [status |-> 200, detail |-> "Task executed successfully", op |-> "",
          cause |-> "", arg |-> {}]
    ELSE IF x.exc = "HTTPException"
    THEN [status |-> x.status, detail |-> x.detail, op |-> x.op, cause |-> x.cause,
          arg |-> x.arg]
    ELSE [status |-> 500, detail |-> x.detail, op |-> x.op, cause |-> x.cause,
          arg |-> x.arg]

\* run_task's answer when requests.post / raise_for_status raised in
\* call_llm_function_call.
upstream_response(kind) ==
    [status |-> 500, detail |-> "RequestException", op |-> "", cause |-> kind, arg |-> {}]

OraclesFor(d) ==
    IF d.kind = "call" /\ d.name \in Registered THEN Faults(Body(d.name)) ELSE {NoOracle}

run_task ==
    /\ pc = "idle"
    /\ schemas' = get_all_function_schemas(registry)   \* tools, line 554
    /\ UNCHANGED prevSchemas
    /\ \E d \in LlmOutcomes :
         \E orc \in OraclesFor(d) :
            LET up == d.kind \in UpstreamFailures
                x == IF up THEN Outcome("Exception", 0, "", "", "", {}, NoRun, 0, "")
                     ELSE execute_llm_function_call(d, orc)
            IN  /\ decision' = d
                /\ oracle' = orc
                /\ llmCalls' = 1
                /\ response' = IF up THEN upstream_response(d.kind)
                               ELSE run_task_response(x)
                /\ dispatched' = x.n
                /\ entered' = x.run.entered
                /\ raised' = x.raised
                /\ effects' = x.run.eff
                /\ checked' = x.run.chk
                /\ files' = files \cup x.run.writes
    /\ pc' = "done"
    /\ req' = "run"
    /\ filesBefore' = files
    /\ readPath' = Null
    /\ readStatus' = 0
    /\ UNCHANGED <<cwd, links, registry>>

----------------------------------------------------------------------------
(* GET /read *)

\* path.startswith("/data/")
StartsWithData(v) == v.abs /\ Len(v.segs) >= 2 /\ v.segs[1] = "data"

\* os.path.exists(p) and os.path.isfile(p)
IsFile(v) == resolve(v) \in files

\* The status read_file answers; rd is whether open()/read() succeeds.
read_file_status(v, rd) ==
    IF ~StartsWithData(v) THEN 403
    ELSE IF ~IsFile(os_path_join_root(v)) THEN 404
    ELSE IF ~is_safe_path(v) THEN 403
    ELSE IF rd THEN 200 ELSE 500

ReadPaths ==
    { Str(TRUE, <<"data", "x">>),
      Str(TRUE, <<"data", "nofile">>),
      Str(TRUE, <<"data">>),
      Str(TRUE, <<"etc", "passwd">>),
      Str(TRUE, <<"etc", "nofile">>),
      Str(TRUE, <<"data", "..", "etc", "passwd">>),
      Str(TRUE, <<"data", "..", "etc", "nofile">>),
      Str(TRUE, <<"data", "lnk", "passwd">>),
      Str(TRUE, <<"data", "lnk", "nofile">>),
      Str(FALSE, <<"data", "x">>) }


read_file ==
    /\ pc = "idle"
    /\ \E v \in ReadPaths, rd \in BOOLEAN :
          /\ readPath' = v
          /\ readStatus' = read_file_status(v, rd)
          /\ checked' = IF StartsWithData(v) /\ IsFile(os_path_join_root(v))
                        THEN {[v |-> v, ok |-> is_safe_path(v)]} ELSE {}
          /\ effects' = IF read_file_status(v, rd) = 200
                        THEN {[k |-> "read", loc |-> resolve(v)]} ELSE {}
    /\ pc' = "done"
    /\ req' = "read"
    /\ filesBefore' = files
    /\ decision' = NoDecision
    /\ oracle' = NoOracle
    /\ response' = NoResponse
    /\ llmCalls' = 0
    /\ dispatched' = 0
    /\ entered' = << >>
    /\ raised' = ""
    /\ UNCHANGED <<cwd, links, files, registry, schemas, prevSchemas>>

\* The answer has been sent; nothing of the request is kept (no shared state
\* between calls).
Respond ==
    /\ pc = "done"
    /\ pc' = "idle"
    /\ req' = "none"
    /\ decision' = NoDecision
    /\ oracle' = NoOracle
    /\ response' = NoResponse
    /\ llmCalls' = 0
    /\ dispatched' = 0
    /\ entered' = << >>
    /\ raised' = ""
    /\ effects' = {}
    /\ checked' = {}
    /\ filesBefore' = files
    /\ readPath' = Null
    /\ readStatus' = 0
    /\ prevSchemas' = IF req = "run" THEN schemas ELSE prevSchemas
    /\ UNCHANGED <<cwd, links, files, registry, schemas>>

----------------------------------------------------------------------------
(* Properties *)

RunDone == pc = "done" /\ req = "run"
ReadDone == pc = "done" /\ req = "read"
IsCall == decision.kind = "call" /\ decision.name \in Registered
FsEffects == { e \in effects : e.k \in {"read", "write", "pass"} }
NoSideEffect == entered = << >> /\ effects = {} /\ files = filesBefore
ExtraKeys == DOMAIN decision.args \ ParamSet(decision.name)
MissingKeys == SchemaRequired(decision.name) \ DOMAIN decision.args

\* C1: every location a /run handler reads, writes or passes to a spawned
\* process lies inside the sandbox root, whatever the operation and arguments.
C1_EffectsInsideSandbox ==
    RunDone => \A e \in FsEffects : InSandbox(e.loc)

\* C2: the guard accepts a path string exactly when its fully resolved
\* absolute form is the sandbox root or below it, and a rejected path makes
\* safe_resolve raise the 403 error.
C2_GuardIffResolvedInside ==
    \A c \in checked :
        ~c.v.null =>
            /\ c.ok <=> InSandbox(OpenLoc(c.v))
            /\ (RunDone /\ ~c.ok) => raised = "HTTP403"

\* C3: a /run call whose decision carries a path argument resolving outside
\* the sandbox root is answered 403 before any handler has executed or had
\* an effect.
C3_EscapeRejected403 ==
    ( /\ RunDone /\ IsCall
      /\ \E p \in PathParams(decision.name) \cap DOMAIN decision.args :
            /\ ~decision.args[p].null
            /\ decision.args[p].abs
            /\ ~InSandbox(OpenLoc(decision.args[p])) )
    => (response.status = 403 /\ NoSideEffect)

FailedBeforeHandler ==
    \/ decision.kind \in UpstreamFailures \cup {"nochoices", "nofncall", "badjson", "notmapping"}
    \/ decision.name \notin Registered
    \/ ExtraKeys # {}
    \/ MissingKeys \ DOMAIN Defaults(decision.name) # {}

C5_UnknownOperation ==
    (RunDone /\ decision.kind \in {"call", "notmapping"} /\ decision.name \notin Registered)
    => /\ response.status = 500
       /\ response.detail = "No function named"
       /\ response.op = decision.name
       /\ dispatched = 0
       /\ NoSideEffect

C5_Witness ==
    /\ RunDone /\ decision.kind = "call" /\ decision.name = "delete_file"
    /\ response.detail = "No function named" /\ entered = << >>

\* C6: a decision lacking a parameter the generated schema lists as required
\* fails with a missing-argument error naming that parameter, and the handler
\* body does not execute.
C6_MissingRequiredRejected ==
    (RunDone /\ IsCall /\ MissingKeys # {} /\ ExtraKeys = {})
    => /\ response.detail = "Argument mismatch"
       /\ MissingKeys \subseteq response.arg
       /\ entered = << >>

\* C7: a decision with a key that is no parameter of the matched operation is
\* rejected with the binding error naming that key; the key is not passed
\* through and the handler body does not execute.
C7_UnexpectedArgument ==
    (RunDone /\ IsCall /\ ExtraKeys # {})
    => /\ response.status = 500
       /\ response.detail = "Argument mismatch"
       /\ response.arg = ExtraKeys
       /\ dispatched = 1
       /\ NoSideEffect

C7_Witness ==
    /\ RunDone /\ IsCall /\ ExtraKey \in DOMAIN decision.args
    /\ response.detail = "Argument mismatch" /\ entered = << >>

\* C8: when the model round trip times out or fails at the network/HTTP
\* level the caller gets status 503, no handler is invoked and the model
\* service is called once only.
C8_Upstream503 ==
    (RunDone /\ decision.kind \in UpstreamFailures)
    => (response.status = 503 /\ entered = << >> /\ llmCalls = 1)

\* C9: for a path with the documented /data/ prefix, /read answers 403 when
\* the path resolves outside the sandbox root (whether or not a file is
\* there), 404 when it is in the sandbox and no existing file, else 200 with
\* the content (500 if the read itself fails), and changes nothing.
C9_ReadGuard ==
    (ReadDone /\ StartsWithData(readPath)) =>
        LET loc == OpenLoc(readPath)
        IN  /\ ~InSandbox(loc) => readStatus = 403
            /\ (InSandbox(loc) /\ loc \notin files) => readStatus = 404
            /\ (InSandbox(loc) /\ loc \in files) => readStatus \in {200, 500}
            /\ files = filesBefore /\ entered = << >>

\* C10: a /run call ends in a 200 or in one structured HTTP error, and an
\* exception raised by a handler is reported with status 500 as a failure of
\* the named operation with its cause.
C10_HandlerFailureNamed ==
    RunDone =>
        /\ response.status = 200 \/ (response.status \in 400..599 /\ response.detail # "")
        /\ raised # "" =>
              /\ response.status = 500
              /\ response.detail = "Error in"
              /\ response.op = decision.name
              /\ response.cause = raised

\* C12: when safe_resolve returns a path, the location that path denotes when
\* the handler opens it is the location is_safe_path resolved and found
\* inside the sandbox root.
C12_ReturnedPathIsCheckedPath ==
    RunDone =>
        \A c \in checked :
            c.ok => /\ OpenLoc(c.v) = resolve(os_path_join_root(c.v))
                    /\ InSandbox(OpenLoc(c.v))

\* C13: "Argument mismatch" is reported only when binding the arguments
\* failed: the handler body did not start, raised nothing and had no effect.
C13_MismatchOnlyFromBinding ==
    (RunDone /\ response.detail = "Argument mismatch")
    => (entered = << >> /\ raised = "" /\ effects = {} /\ files = filesBefore)

Init ==
    /\ cwd \in WorkDirs
    /\ links \in LinkMaps
    /\ files = InitFiles
    /\ pc = "idle"
    /\ req = "none"
    /\ decision = NoDecision
    /\ oracle = NoOracle
    /\ response = NoResponse
    /\ llmCalls = 0
    /\ dispatched = 0
    /\ entered = << >>
    /\ raised = ""
    /\ effects = {}
    /\ checked = {}
    /\ filesBefore = InitFiles
    /\ readPath = Null
    /\ readStatus = 0
    /\ registry = TASK_MAP
    /\ schemas = << >>
    /\ prevSchemas = << >>

Next == run_task \/ read_file \/ Respond

Spec == Init /\ [][Next]_vars
====
